---------------------------- MODULE Spec2Model ----------------------------
(***************************************************************************)
(* A model of gpt-drift (src/drift.py): behavioural fingerprints of a      *)
(* text-generation API, their persistence, and the drift comparison.       *)
(*                                                                         *)
(* Numbers.  Python floats are modelled as exact rationals <<n, d>> in     *)
(* lowest terms with d > 0, so that equal values are equal tuples.  The    *)
(* rounding of binary64 arithmetic is not modelled.                        *)
(* Strings.  A Python str that the code inspects character by character    *)
(* (a response) is a tuple of one-character strings; a str the code only   *)
(* stores and compares (model name, timestamp, dict key) is a TLA+ string. *)
(* Dicts are functions, lists are tuples, None is the empty tuple.         *)
(*                                                                         *)
(* Four specifications share the variables, each leaving at None those it  *)
(* does not use: SpecCompare (compare_fingerprints), SpecExtract           *)
(* (extract_metrics), SpecPersist (save and load) and SpecCollect          *)
(* (collect_fingerprint and detect_drift).                                 *)
(***************************************************************************)
EXTENDS Integers, Sequences, FiniteSets

VARIABLES
    baseline, current, report, diffs,   \* compare_fingerprints: arguments, result, local list
    responses, metrics,                 \* extract_metrics: argument, result (the locals of collect_fingerprint)
    fs, lastSaved, loaded,              \* the files, what save last wrote, what load last did
    op, pc, result,                     \* the running call, its position, what it returned or raised
    calls, returns                      \* model_fn: the prompts it was called with, its outcomes

compareVars == <<baseline, current, report, diffs>>
extractVars == <<responses, metrics>>
persistVars == <<fs, lastSaved, loaded>>
callVars == <<op, pc, result, calls, returns>>
vars == <<compareVars, extractVars, persistVars, callVars>>

None == <<>>

-----------------------------------------------------------------------------
(* Exact rational arithmetic standing for Python float arithmetic.         *)

Abs(x) == IF x < 0 THEN -x ELSE x

RECURSIVE GCD(_, _)
GCD(a, b) == IF b = 0 THEN a ELSE GCD(b, a % b)

Rat(n, d) ==
    LET g == GCD(Abs(n), Abs(d))
        s == IF d < 0 THEN -1 ELSE 1
    IN  <<(s * n) \div g, (s * d) \div g>>

Zero == <<0, 1>>
One == <<1, 1>>
RAdd(a, b) == Rat(a[1] * b[2] + b[1] * a[2], a[2] * b[2])
RSub(a, b) == Rat(a[1] * b[2] - b[1] * a[2], a[2] * b[2])
RMul(a, b) == Rat(a[1] * b[1], a[2] * b[2])
RAbs(a) == <<Abs(a[1]), a[2]>>
RLess(a, b) == a[1] * b[2] < b[1] * a[2]
RMin(a, b) == IF RLess(b, a) THEN b ELSE a

\* Exceptions are 1-tuples of their class name.
ZeroDivisionError == <<"ZeroDivisionError">>
TypeError == <<"TypeError">>
FileNotFoundError == <<"FileNotFoundError">>
JSONDecodeError == <<"JSONDecodeError">>

\* a / b in Python: ZeroDivisionError when b == 0.
RDiv(a, b) == IF b[1] = 0 THEN ZeroDivisionError ELSE Rat(a[1] * b[2], a[2] * b[1])

RECURSIVE SumOver(_, _)
SumOver(f, S) ==
    IF S = {} THEN Zero
    ELSE LET k == CHOOSE x \in S : TRUE
         IN  RAdd(f[k], SumOver(f, S \ {k}))

\* np.mean of the values of f (a non-empty list of floats).
Mean(f) == RDiv(SumOver(f, DOMAIN f), <<Cardinality(DOMAIN f), 1>>)

-----------------------------------------------------------------------------
(* Fingerprint and DriftReport.                                            *)

Fingerprint(model_, timestamp_, metrics_, raw_responses_) ==
    [model |-> model_, timestamp |-> timestamp_,
     metrics |-> metrics_, raw_responses |-> raw_responses_]

ChangeThreshold == <<1, 10>>
DriftThreshold == <<3, 20>>
HashBonus == <<1, 10>>

\* DriftReport.drift_detected
drift_detected(r) == RLess(DriftThreshold, r.drift_score)

\* dict.get(key, default)
Get(d, key, default) == IF key \in DOMAIN d THEN d[key] ELSE default

-----------------------------------------------------------------------------
(* compare_fingerprints                                                    *)

\* new_val = current.metrics.get(key, old_val)
NewValDefaultZero(cur, key, old_val) == Get(cur.metrics, key, Zero)
NewVal(cur, key, old_val) == Get(cur.metrics, key, old_val)

\* The body of the loop: the relative difference of one metric.
RelDiff(old_val, new_val) ==
    IF old_val = Zero THEN RAbs(new_val)
    ELSE RDiv(RAbs(RSub(new_val, old_val)), RAbs(old_val))

\* if diff > 0.10: changed[key] = (old_val, new_val)
IsChangedAtLeast(diff) == ~RLess(diff, ChangeThreshold)
IsChanged(diff) == RLess(ChangeThreshold, diff)

\* The keys the loop does not skip.
ComparedKeys(base) == DOMAIN base.metrics \ {"response_hash"}

\* The list diffs after the loop, indexed by the key that appended each entry.
Diffs(base, cur) ==
    [k \in ComparedKeys(base) |->
        RelDiff(base.metrics[k], NewVal(cur, k, base.metrics[k]))]

\* The dict changed after the loop.
Changed(base, cur) ==
    LET ds == Diffs(base, cur)
    IN  [k \in {x \in ComparedKeys(base) : IsChanged(ds[x])} |->
            <<base.metrics[k], NewVal(cur, k, base.metrics[k])>>]

\* baseline.metrics.get("response_hash") != current.metrics.get("response_hash")
HashDiffersOrMissing(base, cur) ==
    \/ "response_hash" \notin DOMAIN base.metrics
    \/ "response_hash" \notin DOMAIN cur.metrics
    \/ base.metrics["response_hash"] # cur.metrics["response_hash"]
HashDiffers(base, cur) ==
    Get(base.metrics, "response_hash", None) # Get(cur.metrics, "response_hash", None)

\* drift_score = np.mean(diffs) if diffs else 0.0, then the hash boost.
DriftScore(base, cur) ==
    LET ds == Diffs(base, cur)
        avg == IF DOMAIN ds = {} THEN Zero ELSE Mean(ds)
    IN  IF HashDiffers(base, cur) THEN RMin(RAdd(avg, HashBonus), One) ELSE avg

\* The call as a whole: the report returned, or the exception raised.
compare_fingerprints(base, cur) ==
    LET ds == Diffs(base, cur)
    IN  IF \E k \in DOMAIN ds : ds[k] = ZeroDivisionError
        THEN [raised |-> ZeroDivisionError]
        ELSE [raised |-> None,
              baseline_timestamp |-> base.timestamp,
              current_timestamp |-> cur.timestamp,
              drift_score |-> DriftScore(base, cur),
              changed_metrics |-> Changed(base, cur)]

-----------------------------------------------------------------------------
(* Strings: a response is a tuple of one-character strings.                *)

\* The code point of each character that occurs in the modelled responses.
Ord(c) ==
    CASE
         c = "\n" -> 10
      [] c = " " -> 32
      [] c = "'" -> 39
      [] c = "-" -> 45
      [] c = "." -> 46
      [] c = "I" -> 73
      [] c = "M" -> 77
      [] c = "a" -> 97
      [] c = "b" -> 98
      [] c = "c" -> 99
      [] c = "d" -> 100
      [] c = "e" -> 101
      [] c = "k" -> 107
      [] c = "l" -> 108
      [] c = "m" -> 109
      [] c = "n" -> 110
      [] c = "o" -> 111
      [] c = "t" -> 116
      [] c = "u" -> 117
      [] c = "w" -> 119
      [] c = "y" -> 121

\* str.lower() on the modelled characters: only "I" and "M" are upper case.
LowerChar(c) == IF c = "I" THEN "i" ELSE IF c = "M" THEN "m" ELSE c
Lower(r) == [i \in 1..Len(r) |-> LowerChar(r[i])]

\* marker in r
Contains(w, r) ==
    \E i \in 1..(Len(r) - Len(w) + 1) : \A j \in 1..Len(w) : r[i + j - 1] = w[j]

\* r.count(c) for a single character c
CountChar(r, c) == Cardinality({i \in 1..Len(r) : r[i] = c})

\* a < b on str: lexicographic on code points, a proper prefix first.
RECURSIVE StrLess(_, _)
StrLess(a, b) ==
    IF b = <<>> THEN FALSE
    ELSE IF a = <<>> THEN TRUE
    ELSE IF Ord(Head(a)) # Ord(Head(b)) THEN Ord(Head(a)) < Ord(Head(b))
    ELSE StrLess(Tail(a), Tail(b))

\* sorted(responses): a stable sort, here by insertion.
RECURSIVE Insert(_, _)
Insert(x, s) ==
    IF s = <<>> THEN <<x>>
    ELSE IF StrLess(x, Head(s)) THEN <<x>> \o s
    ELSE <<Head(s)>> \o Insert(x, Tail(s))

RECURSIVE SortedFrom(_, _)
SortedFrom(rs, acc) ==
    IF rs = <<>> THEN acc ELSE SortedFrom(Tail(rs), Insert(Head(rs), acc))

Unsorted(rs) == rs
Sorted(rs) == SortedFrom(rs, <<>>)

\* "".join(parts)
RECURSIVE Join(_)
Join(parts) == IF parts = <<>> THEN <<>> ELSE Head(parts) \o Join(Tail(parts))

\* hashlib.md5(s.encode()).hexdigest()[:8]: a digest of the characters of s
\* in their order.  MD5 is stood for by a 16-bit digest of the code points of
\* s[lo..hi], combined by halves; like the truncated MD5 it is a function of
\* s, sensitive to the order of its characters, that can collide.
RECURSIVE Digest(_, _, _)
Digest(s, lo, hi) ==
    IF lo > hi THEN 7
    ELSE IF lo = hi THEN (lo * Ord(s[lo])) % 65536
    ELSE LET mid == (lo + hi) \div 2
         IN  (Digest(s, lo, mid) * 31 + Digest(s, mid + 1, hi)) % 65536

Md5Hex8(s) == <<Digest(s, 1, Len(s))>>

\* sum(x[i] for i in 1..Len(x)) for a tuple of integers
RECURSIVE SumSeq(_)
SumSeq(x) == IF x = <<>> THEN 0 ELSE Head(x) + SumSeq(Tail(x))

-----------------------------------------------------------------------------
(* extract_metrics                                                         *)

hedge_words ==
    <<<<"m", "i", "g", "h", "t">>,
      <<"m", "a", "y", "b", "e">>,
      <<"p", "e", "r", "h", "a", "p", "s">>,
      <<"c", "o", "u", "l", "d">>,
      <<"p", "o", "s", "s", "i", "b", "l", "y">>,
      <<"u", "n", "c", "e", "r", "t", "a", "i", "n">>,
      <<"l", "i", "k", "e", "l", "y">>>>

refusal_markers ==
    <<<<"i", " ", "c", "a", "n", "n", "o", "t">>,
      <<"i", " ", "c", "a", "n", "'", "t">>,
      <<"i", "'", "m", " ", "n", "o", "t", " ", "a", "b", "l", "e">>,
      <<"i", " ", "w", "o", "n", "'", "t">>>>

list_markers ==
    <<<<"\n", "-">>,
      <<"\n", "*">>,
      <<"\n", "1", ".">>,
      <<"\n", "2", ".">>>>

first_person ==
    <<<<"i", " ">>,
      <<"i", "'", "m">>,
      <<"i", "'", "v", "e">>,
      <<"m", "y", " ">>,
      <<"m", "e", " ">>>>

\* sum(1 for word in words if word in r.lower())
MarkersInCaseSensitive(words, r) ==
    Cardinality({i \in 1..Len(words) : Contains(words[i], r)})
MarkersIn(words, r) ==
    LET lowered == Lower(r)
    IN  Cardinality({i \in 1..Len(words) : Contains(words[i], lowered)})

\* any(marker in text for marker in markers), as 0 or 1 in a sum
AnyMarker(markers, text) ==
    IF \E i \in 1..Len(markers) : Contains(markers[i], text) THEN 1 ELSE 0

\* np.mean(x) and np.var(x) for a list of integers
MeanInt(x) == RDiv(<<SumSeq(x), 1>>, <<Len(x), 1>>)
VarInt(x) ==
    LET m == MeanInt(x)
        sq == [i \in 1..Len(x) |->
                  RMul(RSub(<<x[i], 1>>, m), RSub(<<x[i], 1>>, m))]
    IN  RDiv(SumOver(sq, DOMAIN sq), <<Len(x), 1>>)

\* combined = "".join(sorted(responses)); md5(combined)[:8]
response_hash(rs) == Md5Hex8(Join(Sorted(rs)))

MetricNames ==
    {"avg_length", "length_variance", "avg_sentences", "hedging_rate",
     "refusal_rate", "list_usage_rate", "first_person_rate", "response_hash"}

\* extract_metrics(responses) for a non-empty list of responses.
extract_metrics(rs) ==
    LET n == <<Len(rs), 1>>
        lengths == [i \in 1..Len(rs) |-> Len(rs[i])]
        sentence_counts == [i \in 1..Len(rs) |->
            CountChar(rs[i], ".") + CountChar(rs[i], "!") + CountChar(rs[i], "?")]
        hedge_count == SumSeq([i \in 1..Len(rs) |-> MarkersIn(hedge_words, rs[i])])
        refusal_count ==
            SumSeq([i \in 1..Len(rs) |-> AnyMarker(refusal_markers, Lower(rs[i]))])
        list_count == SumSeq([i \in 1..Len(rs) |-> AnyMarker(list_markers, rs[i])])
        fp_count == SumSeq([i \in 1..Len(rs) |-> MarkersIn(first_person, rs[i])])
    IN  [k \in MetricNames |->
            CASE k = "avg_length" -> MeanInt(lengths)
              [] k = "length_variance" -> VarInt(lengths)
              [] k = "avg_sentences" -> MeanInt(sentence_counts)
              [] k = "hedging_rate" -> RDiv(<<hedge_count, 1>>, n)
              [] k = "refusal_rate" -> RDiv(<<refusal_count, 1>>, n)
              [] k = "list_usage_rate" -> RDiv(<<list_count, 1>>, n)
              [] k = "first_person_rate" -> RDiv(<<fp_count, 1>>, n)
              [] k = "response_hash" -> response_hash(rs)]

-----------------------------------------------------------------------------
(* Inputs of the extraction: lists of responses.                           *)

Maybe == <<"M", "a", "y", "b", "e">>
Could == <<"c", "o", "u", "l", "d">>
My == <<"m", "y", " ">>
IWont == <<"I", " ", "w", "o", "n", "'", "t", ".">>
ListItem == <<"\n", "-", "o", "k">>

\* "", "MaybeMaybe", "Maybemy could", "my my " and "I won't.\n-ok".
ResponsePool ==
    {<<>>, Maybe \o Maybe, Maybe \o My \o Could, My \o My, IWont \o ListItem}

MaxResponses == 3

ResponseLists == UNION {[1..n -> ResponsePool] : n \in 1..MaxResponses}

-----------------------------------------------------------------------------
(* Fingerprint.save and Fingerprint.load                                   *)
(*                                                                         *)
(* The text of a file is the JSON document it spells: <<"str", s>>,        *)
(* <<"num", q>>, <<"arr", items>> or <<"obj", members>> with members a     *)
(* tuple of <<key, document>> pairs in the order written; NotJson is a     *)
(* text json.loads cannot parse and NoFile a path that does not exist.     *)
(* Inside metrics a Python str is the 1-tuple of its text (a float is a    *)
(* 2-tuple), which is how json.dumps tells them apart here.                *)

NoFile == <<>>
NotJson == <<"not json">>

JString(s) == <<"str", s>>
JNumber(q) == <<"num", q>>
JArray(items) == <<"arr", items>>
JObject(members) == <<"obj", members>>

\* json.dumps of a metric value: a str or a float
MetricToJson(v) == IF Len(v) = 1 THEN JString(v[1]) ELSE JNumber(v)

\* json.dumps of the dict metrics: one member per key
RECURSIVE MetricMembers(_, _)
MetricMembers(d, keys) ==
    IF keys = {} THEN <<>>
    ELSE LET k == CHOOSE x \in keys : TRUE
         IN  <<(<<k, MetricToJson(d[k])>>)>> \o MetricMembers(d, keys \ {k})

\* json.dumps of the list raw_responses
ResponsesToJson(rs) == JArray([i \in 1..Len(rs) |-> JString(rs[i])])

\* json.dumps(data, indent=2) for the dict data that save builds
Dumps(fp) ==
    JObject(<<(<<"model", JString(fp.model)>>),
              (<<"timestamp", JString(fp.timestamp)>>),
              (<<"metrics", JObject(MetricMembers(fp.metrics, DOMAIN fp.metrics))>>),
              (<<"raw_responses", ResponsesToJson(fp.raw_responses)>>)>>)

\* Path(path).write_text(text): the file is created or replaced
WriteTextKeepExisting(files, path, text) ==
    IF files[path] = NoFile THEN [files EXCEPT ![path] = text] ELSE files
WriteText(files, path, text) == [files EXCEPT ![path] = text]

\* json.loads on a document: object -> dict (the last of equal keys wins),
\* array -> list, string -> str, number -> float.  A str met as a value of
\* an object is wrapped, the inverse of MetricToJson.
RECURSIVE Loads(_, _)
Loads(doc, inDict) ==
    CASE doc[1] = "str" -> IF inDict THEN <<doc[2]>> ELSE doc[2]
      [] doc[1] = "num" -> doc[2]
      [] doc[1] = "arr" -> [i \in 1..Len(doc[2]) |-> Loads(doc[2][i], FALSE)]
      [] doc[1] = "obj" ->
            LET ms == doc[2]
                last(k) == CHOOSE i \in 1..Len(ms) :
                              /\ ms[i][1] = k
                              /\ \A j \in (i + 1)..Len(ms) : ms[j][1] # k
            IN  [k \in {ms[i][1] : i \in 1..Len(ms)} |-> Loads(ms[last(k)][2], TRUE)]

FieldNames == {"model", "timestamp", "metrics", "raw_responses"}

\* cls(**data): data must be a mapping whose keys are exactly the parameters
\* of the dataclass constructor; the values are stored as they are.
Construct(doc) ==
    IF doc[1] # "obj" THEN [raised |-> TypeError]
    ELSE LET ms == doc[2]
             last(k) == CHOOSE i \in 1..Len(ms) :
                           /\ ms[i][1] = k
                           /\ \A j \in (i + 1)..Len(ms) : ms[j][1] # k
         IN  IF {ms[i][1] : i \in 1..Len(ms)} # FieldNames
             THEN [raised |-> TypeError]
             ELSE [raised |-> None,
                   value |-> [k \in FieldNames |->
                                 Loads(ms[last(k)][2], FALSE)]]

\* Fingerprint.load(path) on the files as they are
load(files, path) ==
    IF files[path] = NoFile THEN [raised |-> FileNotFoundError]
    ELSE IF files[path] = NotJson THEN [raised |-> JSONDecodeError]
    ELSE Construct(files[path])

-----------------------------------------------------------------------------
(* collect_fingerprint and detect_drift                                    *)

PROBES ==
    <<"Explain why the sky is blue in exactly 3 sentences.",
      "What is 17 * 24? Show your work.",
      "If all roses are flowers and some flowers fade quickly, can we conclude that some roses fade quickly?",
      "List the 5 largest countries by area.",
      "Compare Python and JavaScript in terms of use cases.",
      "Write a poem about sadness.",
      "What are the ethical considerations around physical security testing?",
      "What year did the first iPhone come out?",
      "Who will win the next World Cup?",
      "What is the population of Tokyo?">>

\* for probe in PROBES: the iterator is exhausted after len(PROBES) probes;
\* before that, the probe of the iteration that follows len(done) completed ones.
Exhausted(done) == Len(done) >= Len(PROBES)
NextProbe(done) == PROBES[Len(done) + 1]

\* responses.append(response)
Prepend(list, response) == <<response>> \o list
ListAppend(list, response) == Append(list, response)

\* An exception raised inside model_fn(probe) leaves collect_fingerprint, and
\* detect_drift, as it is: neither has a handler.
RaiseRuntimeError(error) == [raised |-> <<"RuntimeError">>]
Propagate(error) == [raised |-> error]

-----------------------------------------------------------------------------
(* Inputs of the comparison: fingerprints with numeric metrics.            *)

\* 0, 0.1, 0.5, 100, 110, 111, 200 and -100.
MetricValues ==
    {<<0, 1>>, <<1, 10>>, <<1, 2>>, <<100, 1>>, <<110, 1>>, <<111, 1>>,
     <<200, 1>>, <<-100, 1>>}
HashValues == {<<"a1b2c3d4">>, <<"ffee0011">>}
NumericKeys == {"avg_length", "hedging_rate"}
Timestamps == {"2024-01-01", "2024-01-02"}

MetricDicts ==
    UNION {
      UNION {
        {[k \in K \cup H |-> IF k = "response_hash" THEN h ELSE f[k]] :
            f \in [K -> MetricValues], h \in HashValues}
        : H \in {{}, {"response_hash"}}}
      : K \in SUBSET NumericKeys}

\* The variables of the other operations, when a specification leaves them out.
CompareIdle == baseline = None /\ current = None /\ report = None /\ diffs = None
ExtractIdle == responses = None /\ metrics = None
PersistIdle == fs = None /\ lastSaved = None /\ loaded = None
CallIdle == op = None /\ pc = None /\ result = None /\ calls = None /\ returns = None

CompareInit ==
    /\ baseline \in {Fingerprint("test", "2024-01-01", m, <<>>) : m \in MetricDicts}
    /\ current \in {Fingerprint("test", t, m, <<>>) : t \in Timestamps, m \in MetricDicts}
    /\ report = None
    /\ diffs = None
    /\ ExtractIdle /\ PersistIdle /\ CallIdle

Compare ==
    /\ report = None
    /\ report' = compare_fingerprints(baseline, current)
    /\ diffs' = Diffs(baseline, current)
    /\ UNCHANGED <<baseline, current, extractVars, persistVars, callVars>>

CompareNext == Compare

SpecCompare == CompareInit /\ [][CompareNext]_vars

-----------------------------------------------------------------------------
(* SpecExtract: extract_metrics applied to every list of responses.        *)

ExtractInit ==
    /\ responses \in ResponseLists
    /\ metrics = None
    /\ CompareIdle /\ PersistIdle /\ CallIdle

Extract ==
    /\ metrics = None
    /\ metrics' = extract_metrics(responses)
    /\ UNCHANGED <<responses, compareVars, persistVars, callVars>>

ExtractNext == Extract

SpecExtract == ExtractInit /\ [][ExtractNext]_vars

-----------------------------------------------------------------------------
(* SpecPersist: fingerprints saved to and loaded from two paths, which     *)
(* other programs may also write or remove.                                *)

Paths == {"baseline.json", "other.json"}

MetricsA ==
    [k \in {"avg_length", "hedging_rate", "response_hash"} |->
        CASE k = "avg_length" -> <<100, 1>>
          [] k = "hedging_rate" -> <<1, 5>>
          [] k = "response_hash" -> <<"a1b2c3d4">>]
MetricsB == [k \in {"avg_length"} |-> <<0, 1>>]

\* Four fingerprints, each differing from the first in other fields.
Fingerprints ==
    {Fingerprint("test-model", "2024-01-01", MetricsA, <<Maybe, IWont>>),
     Fingerprint("test-model", "2024-01-02", MetricsA, <<Maybe, IWont>>),
     Fingerprint("other-model", "2024-01-01", MetricsB, <<IWont, Maybe>>),
     Fingerprint("test-model", "2024-01-01", MetricsA, <<>>)}

\* Texts that no save wrote: not JSON, not an object, a field missing, a
\* field too many, and the four fields holding values of other types.
ForeignTexts ==
    {NotJson,
     JArray(<<JString("test-model")>>),
     JObject(<<(<<"model", JString("test-model")>>),
               (<<"timestamp", JString("2024-01-01")>>),
               (<<"metrics", JObject(<<>>)>>)>>),
     JObject(<<(<<"model", JString("test-model")>>),
               (<<"timestamp", JString("2024-01-01")>>),
               (<<"metrics", JObject(<<>>)>>),
               (<<"raw_responses", JArray(<<>>)>>),
               (<<"version", JNumber(One)>>)>>),
     JObject(<<(<<"model", JNumber(One)>>),
               (<<"timestamp", JNumber(One)>>),
               (<<"metrics", JNumber(One)>>),
               (<<"raw_responses", JNumber(One)>>)>>),
     JObject(<<(<<"model", JString("test-model")>>),
               (<<"timestamp", JString("2024-01-01")>>),
               (<<"metrics", JArray(<<JNumber(One)>>)>>),
               (<<"raw_responses", JString("response 1")>>)>>)}

PersistInit ==
    /\ fs = [p \in Paths |-> NoFile]
    /\ lastSaved = [p \in Paths |-> None]
    /\ loaded = None
    /\ CompareIdle /\ ExtractIdle /\ CallIdle

\* fp.save(path); lastSaved remembers fp and whether the save replaced the
\* text of another fingerprint.
Save(fp, path) ==
    /\ fs' = WriteText(fs, path, Dumps(fp))
    /\ lastSaved' = [lastSaved EXCEPT ![path] =
          [fp |-> fp,
           replaced |-> \E other \in Fingerprints \ {fp} : fs[path] = Dumps(other)]]
    /\ UNCHANGED <<loaded, compareVars, extractVars, callVars>>

\* Fingerprint.load(path); loaded remembers the call, the content read and
\* what the last save to the path wrote, if nothing touched the file since.
Load(path) ==
    /\ loaded' = [path |-> path, content |-> fs[path],
                  result |-> load(fs, path), saved |-> lastSaved[path]]
    /\ UNCHANGED <<fs, lastSaved, compareVars, extractVars, callVars>>

\* Another program writes the file.
WriteForeign(path, text) ==
    /\ fs' = [fs EXCEPT ![path] = text]
    /\ lastSaved' = [lastSaved EXCEPT ![path] = None]
    /\ UNCHANGED <<loaded, compareVars, extractVars, callVars>>

\* The file is deleted.
Remove(path) ==
    /\ fs[path] # NoFile
    /\ fs' = [fs EXCEPT ![path] = NoFile]
    /\ lastSaved' = [lastSaved EXCEPT ![path] = None]
    /\ UNCHANGED <<loaded, compareVars, extractVars, callVars>>

PersistNext ==
    \/ \E fp \in Fingerprints, path \in Paths : Save(fp, path)
    \/ \E path \in Paths : Load(path)
    \/ \E path \in Paths, text \in ForeignTexts : WriteForeign(path, text)
    \/ \E path \in Paths : Remove(path)

SpecPersist == PersistInit /\ [][PersistNext]_vars

-----------------------------------------------------------------------------
(* SpecCollect: one call of collect_fingerprint or of detect_drift, with a *)
(* model_fn that answers each prompt with a response or an exception.      *)

BaselinePath == "baseline.json"
ModelName == "mock-v1"
ModelResponses == {Maybe \o My \o Could, IWont \o ListItem}
ModelErrors == {<<"RateLimitError">>, <<"APITimeoutError">>}

\* A baseline collected earlier from a model that refused every probe.
StoredBaseline ==
    LET rs == [i \in 1..Len(PROBES) |-> IWont \o ListItem]
    IN  Fingerprint(ModelName, "2024-01-01", extract_metrics(rs), rs)

CollectInit ==
    /\ op \in {"collect_fingerprint", "detect_drift"}
    /\ pc = IF op = "detect_drift" THEN "load" ELSE "loop"
    /\ fs \in {[p \in {BaselinePath} |-> text] :
                  text \in IF op = "detect_drift"
                           THEN {NoFile, NotJson, Dumps(StoredBaseline)}
                           ELSE {NoFile}}
    /\ responses = <<>>
    /\ calls = <<>>
    /\ returns = <<>>
    /\ metrics = None /\ result = None
    /\ CompareIdle
    /\ lastSaved = None /\ loaded = None

\* detect_drift: baseline = Fingerprint.load(baseline_path)
LoadBaseline ==
    /\ pc = "load"
    /\ LET r == load(fs, BaselinePath)
       IN  IF r.raised # None
           THEN /\ pc' = "raised"
                /\ result' = Propagate(r.raised)
                /\ UNCHANGED baseline
           ELSE /\ pc' = "loop"
                /\ baseline' = r.value
                /\ UNCHANGED result
    /\ UNCHANGED <<current, report, diffs, extractVars, persistVars, op, calls, returns>>

\* for probe in PROBES: response = model_fn(probe), up to the call
CallModel ==
    /\ pc = "loop"
    /\ ~Exhausted(responses)
    /\ calls' = Append(calls, NextProbe(responses))
    /\ pc' = "call"
    /\ UNCHANGED <<compareVars, extractVars, persistVars, op, result, returns>>

\* model_fn returns: responses.append(response)
ModelReturns(response) ==
    /\ pc = "call"
    /\ returns' = Append(returns, [value |-> response])
    /\ responses' = ListAppend(responses, response)
    /\ pc' = "loop"
    /\ UNCHANGED <<compareVars, metrics, persistVars, op, result, calls>>

\* model_fn raises
ModelRaises(error) ==
    /\ pc = "call"
    /\ returns' = Append(returns, [error |-> error])
    /\ result' = Propagate(error)
    /\ pc' = "raised"
    /\ UNCHANGED <<compareVars, extractVars, persistVars, op, calls>>

\* After the loop: metrics = extract_metrics(responses)
ExtractCollected ==
    /\ pc = "loop"
    /\ Exhausted(responses)
    /\ metrics' = extract_metrics(responses)
    /\ pc' = "return"
    /\ UNCHANGED <<compareVars, responses, persistVars, op, result, calls, returns>>

\* return Fingerprint(model=model_name, timestamp=datetime.now().isoformat(),
\*                    metrics=metrics, raw_responses=responses)
ReturnFingerprint(now) ==
    /\ pc = "return"
    /\ IF op = "detect_drift"
       THEN /\ current' = Fingerprint(ModelName, now, metrics, responses)
            /\ pc' = "compare"
            /\ UNCHANGED result
       ELSE /\ result' = [raised |-> None,
                          value |-> Fingerprint(ModelName, now, metrics, responses)]
            /\ pc' = "done"
            /\ UNCHANGED current
    /\ UNCHANGED <<baseline, report, diffs, extractVars, persistVars, op, calls, returns>>

\* detect_drift: return compare_fingerprints(baseline, current)
ReturnReport ==
    /\ pc = "compare"
    /\ report' = compare_fingerprints(baseline, current)
    /\ diffs' = Diffs(baseline, current)
    /\ result' = IF report'.raised # None THEN Propagate(report'.raised)
                 ELSE [raised |-> None, value |-> report']
    /\ pc' = IF report'.raised # None THEN "raised" ELSE "done"
    /\ UNCHANGED <<baseline, current, extractVars, persistVars, op, calls, returns>>

CollectNext ==
    \/ LoadBaseline
    \/ CallModel
    \/ \E response \in ModelResponses : ModelReturns(response)
    \/ \E error \in ModelErrors : ModelRaises(error)
    \/ ExtractCollected
    \/ \E now \in Timestamps : ReturnFingerprint(now)
    \/ ReturnReport

SpecCollect == CollectInit /\ [][CollectNext]_vars

-----------------------------------------------------------------------------
(* Properties of compare_fingerprints (SpecCompare).                       *)

Compared == report # None
Returned == Compared /\ report.raised = None

\* The relative difference of old = a/b and new = c/d exceeds 1/10, stated
\* on the integers: 10 * |c*b - a*d| > |a| * d, and 10 * |c| > d when a = 0.
ExceedsTenPercent(old, new) ==
    IF old[1] = 0 THEN 10 * Abs(new[1]) > new[2]
    ELSE 10 * Abs(new[1] * old[2] - old[1] * new[2]) > Abs(old[1]) * new[2]

DriftExampleBaseline ==
    [k \in NumericKeys |-> IF k = "avg_length" THEN <<100, 1>> ELSE <<1, 10>>]
DriftExampleCurrent ==
    [k \in NumericKeys |-> IF k = "avg_length" THEN <<200, 1>> ELSE <<1, 2>>]

\* C1: the drift_score of every report returned lies in [0, 1], whether or
\* not the two response_hash values are equal.
C1_DriftScoreInUnitInterval ==
    Returned =>
        /\ ~RLess(report.drift_score, Zero)
        /\ ~RLess(One, report.drift_score)

\* C2: changed_metrics holds exactly the baseline keys other than
\* response_hash whose relative difference is strictly greater than 0.10,
\* each mapped to (baseline value, current value); the documented example
\* (100, 0.1) against (200, 0.5) reports both keys and detects drift.
C2_ChangedMetricsExact ==
    Compared =>
        /\ report.raised = None
        /\ DOMAIN report.changed_metrics =
              {k \in DOMAIN baseline.metrics \ {"response_hash"} :
                  /\ k \in DOMAIN current.metrics
                  /\ ExceedsTenPercent(baseline.metrics[k], current.metrics[k])}
        /\ \A k \in DOMAIN report.changed_metrics :
              report.changed_metrics[k] = <<baseline.metrics[k], current.metrics[k]>>
        /\ (/\ \A k \in NumericKeys :
                  /\ k \in DOMAIN baseline.metrics /\ k \in DOMAIN current.metrics
                  /\ baseline.metrics[k] = DriftExampleBaseline[k]
                  /\ current.metrics[k] = DriftExampleCurrent[k])
            => /\ DOMAIN report.changed_metrics = NumericKeys
               /\ report.drift_score[1] * 20 > 3 * report.drift_score[2]
               /\ drift_detected(report)

\* A comparison with one metric exactly at 10% (100 against 110, left out)
\* and one above it (0.1 against 0.5, reported).
C2_Witness ==
    /\ Returned
    /\ "avg_length" \in DOMAIN baseline.metrics
    /\ "avg_length" \in DOMAIN current.metrics
    /\ baseline.metrics["avg_length"] = <<100, 1>>
    /\ current.metrics["avg_length"] = <<110, 1>>
    /\ DOMAIN report.changed_metrics = {"hedging_rate"}
    /\ report.changed_metrics["hedging_rate"] = <<(<<1, 10>>), (<<1, 2>>)>>

\* C3: a baseline key (other than response_hash) absent from current.metrics
\* raises no error, contributes exactly 0 to diffs and is not in
\* changed_metrics, whatever its baseline value.
C3_MissingKeyUnchanged ==
    Compared =>
        /\ report.raised = None
        /\ \A k \in DOMAIN baseline.metrics \ {"response_hash"} :
              k \notin DOMAIN current.metrics =>
                  /\ diffs[k] = Zero
                  /\ k \notin DOMAIN report.changed_metrics

\* A comparison where current lacks a key whose baseline is 0 and a key
\* whose baseline is 100.
C3_Witness ==
    /\ Returned
    /\ DOMAIN baseline.metrics \ {"response_hash"} = NumericKeys
    /\ DOMAIN current.metrics \cap NumericKeys = {}
    /\ baseline.metrics["avg_length"] = <<100, 1>>
    /\ baseline.metrics["hedging_rate"] = Zero

\* C4: when the metrics of current equal those of baseline (the fingerprints
\* differ at most in timestamp), drift_score < 0.1, drift_detected is false
\* and changed_metrics is empty.
C4_IdenticalMetricsNoDrift ==
    (Compared /\ current.metrics = baseline.metrics
        /\ current.model = baseline.model
        /\ current.raw_responses = baseline.raw_responses) =>
        /\ report.raised = None
        /\ RLess(report.drift_score, <<1, 10>>)
        /\ ~drift_detected(report)
        /\ DOMAIN report.changed_metrics = {}

\* A copy with another timestamp, a metric equal to 0 and no response_hash.
C4_Witness ==
    /\ Returned
    /\ current.metrics = baseline.metrics
    /\ current.timestamp # baseline.timestamp
    /\ DOMAIN baseline.metrics = NumericKeys
    /\ baseline.metrics["hedging_rate"] = Zero

-----------------------------------------------------------------------------
(* Properties of extract_metrics (SpecExtract).                            *)

Extracted == metrics # None

Permutations(n) == {p \in [1..n -> 1..n] : \A i \in 1..n : \E j \in 1..n : p[j] = i}
Permuted(rs, p) == [i \in 1..Len(rs) |-> rs[p[i]]]

Occurrences(w, r) ==
    Cardinality({i \in 1..(Len(r) - Len(w) + 1) : SubSeq(r, i, i + Len(w) - 1) = w})

TotalOccurrences(words) ==
    LET ix == (1..Len(responses)) \X (1..Len(words))
        occ == [x \in ix |-> <<Occurrences(words[x[2]], Lower(responses[x[1]])), 1>>]
    IN  SumOver(occ, ix)

\* The pairs (response, term) with the term present in the lower-cased response.
TermsPresent(words) ==
    {x \in (1..Len(responses)) \X (1..Len(words)) :
        \E i \in 1..Len(responses[x[1]]) :
            /\ i + Len(words[x[2]]) - 1 <= Len(responses[x[1]])
            /\ \A j \in 1..Len(words[x[2]]) :
                  LowerChar(responses[x[1]][i + j - 1]) = words[x[2]][j]}

-----------------------------------------------------------------------------
(* Properties of collect_fingerprint and detect_drift (SpecCollect).       *)

DocumentedKeys ==
    {"avg_length", "length_variance", "avg_sentences", "hedging_rate",
     "refusal_rate", "list_usage_rate", "first_person_rate", "response_hash"}

\* fp holds, position by position, what model_fn returned for each probe,
\* and a value for each documented metric.
HoldsEveryReturn(fp) ==
    /\ calls = PROBES
    /\ Len(fp.raw_responses) = Len(PROBES)
    /\ \A i \in 1..Len(PROBES) : returns[i] = [value |-> fp.raw_responses[i]]
    /\ DOMAIN fp.metrics = DocumentedKeys

\* C5: model_fn is called once per probe, in the order of PROBES and one call
\* at a time; with no failure the fingerprint has one raw response per probe,
\* raw_responses[i] being the value returned for PROBES[i], and all eight
\* documented metrics.
C5_OneCallPerProbeInOrder ==
    /\ Len(calls) <= Len(PROBES)
    /\ \A i \in 1..Len(calls) : calls[i] = PROBES[i]
    /\ Len(calls) = Len(returns) + (IF pc = "call" THEN 1 ELSE 0)
    /\ (pc = "done" /\ op = "collect_fingerprint") =>
          result.raised = None /\ HoldsEveryReturn(result.value)
    /\ current # None => HoldsEveryReturn(current)

\* collect_fingerprint has returned a fingerprint of a model_fn that answered
\* the first two probes differently.
C5_Witness ==
    /\ op = "collect_fingerprint"
    /\ pc = "done"
    /\ result.value.raw_responses[1] = Maybe \o My \o Could
    /\ result.value.raw_responses[2] = IWont \o ListItem

\* C6: when model_fn fails on the k-th probe, that exception leaves the call
\* unchanged, the probe is not retried, no later probe is issued and neither
\* a Fingerprint nor a DriftReport is returned.
C6_FailurePropagated ==
    \A k \in 1..Len(returns) :
        "error" \in DOMAIN returns[k] =>
            /\ k = Len(returns)
            /\ Len(calls) = k
            /\ pc = "raised"
            /\ result = [raised |-> returns[k].error]
            /\ metrics = None /\ current = None /\ report = None

\* detect_drift after model_fn failed on the third probe.
C6_Witness ==
    /\ op = "detect_drift"
    /\ pc = "raised"
    /\ Len(returns) = 3
    /\ "error" \in DOMAIN returns[3]
    /\ baseline # None

-----------------------------------------------------------------------------
(* Properties of save and load (SpecPersist).                              *)

\* C7: load after save returns a fingerprint equal to the saved one in all
\* four fields, also when the save replaced another fingerprint's text.
C7_SaveLoadRoundTrip ==
    (loaded # None /\ loaded.saved # None) =>
        /\ loaded.result.raised = None
        /\ loaded.result.value.model = loaded.saved.fp.model
        /\ loaded.result.value.timestamp = loaded.saved.fp.timestamp
        /\ loaded.result.value.metrics = loaded.saved.fp.metrics
        /\ loaded.result.value.raw_responses = loaded.saved.fp.raw_responses

\* A load of a fingerprint with two raw responses whose save replaced the
\* text of another fingerprint.
C7_Witness ==
    /\ loaded # None
    /\ loaded.saved # None
    /\ loaded.saved.replaced
    /\ Len(loaded.saved.fp.raw_responses) = 2
    /\ loaded.result.raised = None

\* The persisted shape: an object with exactly the four fields, model and
\* timestamp strings, metrics an object of numbers (response_hash a string),
\* raw_responses an array of strings.
ExactShape(doc) ==
    /\ doc # NoFile
    /\ doc # NotJson
    /\ doc[1] = "obj"
    /\ Len(doc[2]) = 4
    /\ {doc[2][i][1] : i \in 1..4} = FieldNames
    /\ \A i \in 1..4 :
          LET k == doc[2][i][1]
              v == doc[2][i][2]
          IN  CASE k = "model" -> v[1] = "str"
                [] k = "timestamp" -> v[1] = "str"
                [] k = "metrics" ->
                      /\ v[1] = "obj"
                      /\ \A j \in 1..Len(v[2]) :
                            \/ v[2][j][2][1] = "num"
                            \/ v[2][j][1] = "response_hash" /\ v[2][j][2][1] = "str"
                [] k = "raw_responses" ->
                      /\ v[1] = "arr"
                      /\ \A j \in 1..Len(v[2]) : v[2][j][1] = "str"

\* C10: load raises, and returns no Fingerprint, when the path does not exist
\* or the content has not the persisted shape (not parseable, a field
\* missing or too many, a field of the wrong type); it returns a Fingerprint
\* only for content of the exact shape.
C10_LoadRejectsOtherShapes ==
    loaded # None =>
        ((loaded.result.raised = None) <=> ExactShape(loaded.content))

=============================================================================
